---- MODULE Spec2Model ----
(***************************************************************************)
(* Model of the parameter compliance core of raamana/protocol:             *)
(*   src/protocol/base.py     BaseParameter and its three kinds,           *)
(*                            BaseSequence, BaseMRImagingProtocol           *)
(*   src/protocol/imaging.py  the named parameter classes                   *)
(*                                                                         *)
(* Numbers.  A Python float is modelled as an integer count of 1/Scale, so  *)
(* 2000.4 is 20004000.  np.isclose(a, b, atol=t) is numpy's                 *)
(*     abs(a - b) <= t + rtol * abs(b)   with the default rtol = 1e-5,      *)
(* which on these integers is  Abs(a-b) - t <= Abs(b) \div 100000.          *)
(*                                                                         *)
(* Python values.  A plain value is a record [t, n, s, l]: t is its type, n   *)
(* its number, s its text, l its list of floats.  Anything that can be      *)
(* stored in a Sequence or handed to it is a record [t, val, obj, names]:   *)
(* a plain value, a Parameter object, or a set of names.  A call's outcome  *)
(* is a record whose field raised is "none" or the exception's class.       *)
(*                                                                         *)
(* Specifications.  Spec: the operations of one Sequence.  SpecParam: two   *)
(* Parameters are constructed and compared.  SpecProtocol: the operations   *)
(* of one Protocol.                                                         *)
(***************************************************************************)
EXTENDS Integers, Sequences, FiniteSets, TLC

VARIABLES seq, ret, protocol

vars == <<seq, ret, protocol>>

-----------------------------------------------------------------------------
(* Python values *)

Scale == 10000

PyVal(t, n, s, l) == [t |-> t, n |-> n, s |-> s, l |-> l]

Unspecified == PyVal("UnspecifiedType", 0, "", <<>>)
None == PyVal("NoneType", 0, "", <<>>)
PyInt(n) == PyVal("int", n, "", <<>>)
Float(n) == PyVal("float", n, "", <<>>)
Str(s) == PyVal("str", 0, s, <<>>)
List(l) == PyVal("list", 0, "", l)
\* a list whose elements are Python ints
IntList(l) == PyVal("intlist", 0, "", l)
Bool(b) == PyVal("bool", IF b THEN 1 ELSE 0, "", <<>>)

IsUnspecified(x) == x.t = "UnspecifiedType"
IsNumber(x) == x.t \in {"int", "float"}
IsIterable(x) == x.t \in {"str", "list", "intlist"}
IsList(x) == x.t \in {"list", "intlist"}

\* float(x) of a Number: an int n becomes n.0
ToFloat(x) == IF x.t = "int" THEN x.n * Scale ELSE x.n

Abs(n) == IF n < 0 THEN -n ELSE n

\* base ** -n as a float (base >= 1, n >= 0)
RECURSIVE IntPow(_, _)
IntPow(base, n) == IF n = 0 THEN 1 ELSE base * IntPow(base, n - 1)

PowNeg(base, n) == Scale \div IntPow(base, n)

\* numpy.isclose(a, b, atol=atol) on two floats, rtol at its default 1e-5
IsClose(a, b, atol) == Abs(a - b) - atol <= Abs(b) \div 100000

\* str.upper() on the strings the model uses
Upper(s) ==
    CASE s = "siemens" -> "SIEMENS"
      [] s = "Siemens" -> "SIEMENS"
      [] s = "ge" -> "GE"
      [] s = "epi" -> "EPI"
      [] s = "Unspecified" -> "UNSPECIFIED"
      [] s = "row" -> "ROW"
      [] s = "col" -> "COL"
      [] OTHER -> s

\* sorted(list of floats): insertion sort
RECURSIVE Insert(_, _)
Insert(x, l) ==
    IF l = <<>> THEN <<x>>
    ELSE IF x <= Head(l) THEN <<x>> \o l
    ELSE <<Head(l)>> \o Insert(x, Tail(l))

RECURSIVE Sorted(_)
Sorted(l) == IF l = <<>> THEN <<>> ELSE Insert(Head(l), Sorted(Tail(l)))

-----------------------------------------------------------------------------
(* Parameter classes *)

NumericClasses == {"NumericParameter", "RepetitionTime", "EchoTime", "FlipAngle"}
VariableNumericClasses == {"VariableNumericParameter"}
CategoricalClasses == {"CategoricalParameter", "Manufacturer", "ScanningSequence"}

\* the class a class derives from
BaseOf(cls) ==
    CASE cls \in {"RepetitionTime", "EchoTime", "FlipAngle"} -> "NumericParameter"
      [] cls \in {"Manufacturer", "ScanningSequence"} -> "CategoricalParameter"
      [] OTHER -> "BaseParameter"

\* isinstance(obj of class cls, klass)
IsInstance(cls, klass) == cls = klass \/ BaseOf(cls) = klass

\* the name a named class binds (the generic classes take it as an argument)
ClassName(cls, name) ==
    IF cls \in {"RepetitionTime", "EchoTime", "FlipAngle", "Manufacturer",
                "ScanningSequence"}
    THEN cls ELSE name

\* the units a named class binds
ClassUnits(cls, units) ==
    CASE cls \in {"RepetitionTime", "EchoTime"} -> "ms"
      [] cls = "FlipAngle" -> "degrees"
      [] cls \in {"Manufacturer", "ScanningSequence"} -> "None"
      [] OTHER -> units

Obj(cls, name, value, units, decimals) ==
    [cls |-> cls, name |-> name, value |-> value, units |-> units,
     decimals |-> decimals, abs_tolerance |-> 0]

Ok(x) == [raised |-> "none", value |-> x]
Raise(e) == [raised |-> e, value |-> None]

\* NumericParameter.__init__
NumericInit(cls, name, value, units) ==
    IF IsUnspecified(value) THEN Ok(Obj(cls, name, value, units, 3))
    ELSE IF ~IsNumber(value) THEN Raise("TypeError")
    ELSE Ok(Obj(cls, name, Float(ToFloat(value)), units, 3))

\* FlipAngle.__init__
FlipAngleInit(value) ==
    LET r == NumericInit("FlipAngle", "FlipAngle", value, "degrees")
    IN IF r.raised # "none" THEN r
       ELSE Ok([r.value EXCEPT !.decimals = 0, !.abs_tolerance = 0])

\* [float(v) for v in value] of a list of numbers
ElemFloats(value) ==
    IF value.t = "intlist" THEN [i \in 1..Len(value.l) |-> value.l[i] * Scale]
    ELSE value.l

\* a constructor that stores the list in the order given, without sorted()
VariableNumericInitUnsorted(cls, name, value, units) ==
    IF IsUnspecified(value) THEN Ok(Obj(cls, name, value, units, 3))
    ELSE IF IsList(value) THEN Ok(Obj(cls, name, List(ElemFloats(value)), units, 3))
    ELSE IF value.t = "str" THEN
        IF value.s = "" THEN Ok(Obj(cls, name, List(<<>>), units, 3))
        ELSE Raise("TypeError")
    ELSE IF IsNumber(value) THEN
        Ok(Obj(cls, name, List(<<ToFloat(value)>>), units, 3))
    ELSE Raise("TypeError")

\* VariableNumericParameter.__init__
VariableNumericInit(cls, name, value, units) ==
    IF IsUnspecified(value) THEN Ok(Obj(cls, name, value, units, 3))
    ELSE IF IsList(value) THEN
        \* the lists given here hold Numbers only
        Ok(Obj(cls, name, List(Sorted(ElemFloats(value))), units, 3))
    ELSE IF value.t = "str" THEN
        \* a str is Iterable: its characters are not Numbers; '' has none
        IF value.s = "" THEN Ok(Obj(cls, name, List(<<>>), units, 3))
        ELSE Raise("TypeError")
    ELSE IF IsNumber(value) THEN
        Ok(Obj(cls, name, List(<<ToFloat(value)>>), units, 3))
    ELSE Raise("TypeError")

\* str(value) of a str or of the Unspecified sentinel
PyStr(value) ==
    CASE value.t = "str" -> value.s
      [] value.t = "UnspecifiedType" -> "Unspecified"

\* a constructor that stores str(value) as given, without upper()
CategoricalInitAsGiven(cls, name, value, units, allowed_values) ==
    IF ~IsUnspecified(value) /\ ~IsIterable(value) THEN Raise("TypeError")
    ELSE IF allowed_values # {} /\ ~(value.t = "str" /\ value.s \in allowed_values)
         THEN Raise("ValueError")
    ELSE Ok(Obj(cls, name, Str(PyStr(value)), units, 2))

\* CategoricalParameter.__init__; allowed_values is the set of the strings
\* allowed, empty by default.  An Unspecified value skips the type check, is
\* looked up in allowed_values like any value, and is stored as its upper-cased
\* str
CategoricalInit(cls, name, value, units, allowed_values) ==
    IF ~IsUnspecified(value) /\ ~IsIterable(value) THEN Raise("TypeError")
    ELSE IF allowed_values # {} /\ ~(value.t = "str" /\ value.s \in allowed_values)
         THEN Raise("ValueError")
    ELSE Ok(Obj(cls, name, Str(Upper(PyStr(value))), units, 2))

\* cls(value) for a named class, cls(name, value, ..., units=units) for a generic one
Construct(a) ==
    LET name == ClassName(a.cls, a.name)
        units == ClassUnits(a.cls, a.units)
    IN CASE a.cls = "FlipAngle" -> FlipAngleInit(a.value)
         [] a.cls \in NumericClasses \ {"FlipAngle"} ->
                NumericInit(a.cls, name, a.value, units)
         [] a.cls \in VariableNumericClasses ->
                VariableNumericInit(a.cls, name, a.value, units)
         [] OTHER -> CategoricalInit(a.cls, name, a.value, units, a.allowed)

-----------------------------------------------------------------------------
(* Parameter compliance *)

\* the tolerance the code passes to np.isclose: 1 ** -self.decimals
Atol(decimals) == PowNeg(1, decimals)

\* np.isclose(v, o, atol) where o is any Python value; `if` of the result
IsCloseAny(v, o, atol) ==
    CASE o.t = "float" -> Ok(IsClose(v, o.n, atol))
      [] o.t = "list" /\ Len(o.l) = 1 -> Ok(IsClose(v, o.l[1], atol))
      [] o.t = "list" -> Raise("ValueError")
      [] OTHER -> Raise("TypeError")

\* _cmp_units of all three kinds
CmpUnits(self, other) == self.units = other.units

\* NumericParameter._cmp_value
NumericCmpValue(self, other) ==
    IsCloseAny(self.value.n, other.value, Atol(self.decimals))

\* VariableNumericParameter._cmp_value: zip stops at the shorter list
RECURSIVE ZipClose(_, _, _)
ZipClose(a, b, atol) ==
    IF a = <<>> \/ b = <<>> THEN TRUE
    ELSE IF ~IsClose(Head(a), Head(b), atol) THEN FALSE
    ELSE ZipClose(Tail(a), Tail(b), atol)

VariableNumericCmpValue(self, other) ==
    CASE other.value.t = "list" ->
            Ok(ZipClose(self.value.l, other.value.l, Atol(self.decimals)))
      [] other.value.t = "str" ->
            IF self.value.l = <<>> \/ other.value.s = "" THEN Ok(TRUE)
            ELSE Raise("TypeError")
      [] OTHER -> Raise("TypeError")

\* CategoricalParameter._cmp_value
CategoricalCmpValue(self, other) ==
    IF IsInstance(other.cls, self.cls) THEN Ok(self.value = other.value)
    ELSE Raise("TypeError")

\* x and y, where x is an outcome and y a boolean that cannot raise
AndThen(x, y) == IF x.raised # "none" THEN x ELSE Ok(x.value /\ y)

\* _check_compliance, dispatched on the receiver's class
CheckCompliance(self, other) ==
    CASE self.cls = "FlipAngle" ->
            IsCloseAny(self.value.n, other.value, self.abs_tolerance)
      [] self.cls \in NumericClasses \ {"FlipAngle"} ->
            AndThen(NumericCmpValue(self, other), CmpUnits(self, other))
      [] self.cls \in VariableNumericClasses ->
            AndThen(VariableNumericCmpValue(self, other), CmpUnits(self, other))
      [] OTHER ->
            AndThen(CategoricalCmpValue(self, other), CmpUnits(self, other))

\* BaseParameter.compliant
UnspecifiedGuard(self, other) ==
    IsUnspecified(self.value) \/ IsUnspecified(other.value)

ParamCompliant(self, other) ==
    IF UnspecifiedGuard(self, other) THEN Ok(FALSE)
    ELSE CheckCompliance(self, other)

-----------------------------------------------------------------------------
(* Bounds and inputs *)

\* longest list handed to one add call
MaxAddLen == 2
\* most parameters of the sequence a sequence is compared with
MaxOtherLen == 3

ParamNames == {"RepetitionTime", "EchoTime", "FlipAngle"}
\* the instance attributes __init__ sets besides params
AttrNames == {"name", "path", "subject_id", "session_id", "run_id", "_mutable"}
Keys == ParamNames \cup AttrNames

Args(cls, value) ==
    [cls |-> cls, name |-> "X", value |-> value, units |-> "None", allowed |-> {}]

\* objects: a plain value, a Parameter, a set of names, or nothing stored
NoObj == Obj("", "", None, "", 0)
Raw(v) == [t |-> v.t, val |-> v, obj |-> NoObj, names |-> {}]
Param(o) == [t |-> "Parameter", val |-> None, obj |-> o, names |-> {}]
NameSet(S) == [t |-> "set", val |-> None, obj |-> NoObj, names |-> S]
Absent == [t |-> "absent", val |-> None, obj |-> NoObj, names |-> {}]
IsParameter(x) == x.t = "Parameter"
IsNone(x) == x.t = "NoneType"

TR2000 == Construct(Args("RepetitionTime", PyInt(2000))).value
TR2000p4 == Construct(Args("RepetitionTime", Float(20004000))).value
TE30 == Construct(Args("EchoTime", PyInt(30))).value
FA90 == Construct(Args("FlipAngle", PyInt(90))).value
\* a generic categorical parameter that carries the echo time as text
TEtext == Construct([cls |-> "CategoricalParameter", name |-> "EchoTime",
                     value |-> Str("30"), units |-> "ms", allowed |-> {}]).value

\* the Parameter objects the sequence operations are given
Pool == {Param(TR2000), Param(TR2000p4), Param(TE30), Param(FA90), Param(TEtext)}
\* things that are no Parameter
NonParams == {Raw(Float(5 * Scale))}
Items == Pool \cup NonParams

RECURSIVE ListsUpTo(_, _)
ListsUpTo(S, n) ==
    IF n = 0 THEN {<<>>}
    ELSE LET shorter == ListsUpTo(S, n - 1)
         IN shorter \cup {Append(l, x) : l \in shorter, x \in S}

-----------------------------------------------------------------------------
(* BaseSequence *)

Has(s, k) == k \in Keys /\ s.dict[k].t # "absent"

\* BaseSequence.__init__(name, params, path); params is [t, v]: a dict v or None
SeqInit(name, params, path) ==
    LET d0 == [k \in Keys |->
                 CASE k = "name" -> Raw(Str(name))
                   [] k = "path" -> Raw(path)
                   [] k \in {"subject_id", "session_id", "run_id"} -> Raw(None)
                   [] OTHER -> Absent]
        isdict == params.t = "dict"
        d1 == [k \in Keys |->
                 IF isdict /\ k \in DOMAIN params.v THEN params.v[k] ELSE d0[k]]
    IN [params |-> IF isdict THEN DOMAIN params.v ELSE {},
        dict |-> [d1 EXCEPT !["_mutable"] = Raw(Bool(TRUE))]]

\* a store that keeps what is already there: __dict__.setdefault(key, value)
StoreKeepFirst(s, key, value) ==
    [params |-> s.params \cup {key},
     dict |-> IF s.dict[key].t # "absent" THEN s.dict
              ELSE [s.dict EXCEPT ![key] = value]]

\* self.__dict__[key] = value; self.params.add(key)
Store(s, key, value) ==
    [params |-> s.params \cup {key}, dict |-> [s.dict EXCEPT ![key] = value]]

\* the loop of BaseSequence.add over the items left; n counts the items stored
RECURSIVE AddLoop(_, _, _)
AddLoop(s, items, n) ==
    IF items = <<>> THEN [raised |-> "none", seq |-> s, stored |-> n]
    ELSE IF ~IsParameter(Head(items))
         THEN [raised |-> "ValueError", seq |-> s, stored |-> n]
    ELSE AddLoop(Store(s, Head(items).obj.name, Head(items)), Tail(items), n + 1)

\* BaseSequence.add(param_list); param_list is [t, v]: t = "list" for a list v
\* of items, otherwise v is the one item, which the method wraps into a list
SeqAdd(s, param_list) ==
    AddLoop(s, IF param_list.t = "list" THEN param_list.v ELSE <<param_list.v[1]>>, 0)

\* BaseSequence.__setitem__(key, value)
SeqSetItem(s, key, value) ==
    IF ~IsParameter(value) THEN [raised |-> "ValueError", seq |-> s]
    ELSE IF key.t # "str" THEN [raised |-> "ValueError", seq |-> s]
    ELSE [raised |-> "none", seq |-> Store(s, key.s, value)]

\* self.__dict__[name], where __dict__["params"] is the set of names
DictLookup(s, name) ==
    IF name = "params" THEN Ok(NameSet(s.params))
    ELSE IF Has(s, name) THEN Ok(s.dict[name])
    ELSE Raise("KeyError")

\* BaseSequence.__getitem__(name, not_found_value)
SeqGetItem(s, name, not_found_value) ==
    LET r == DictLookup(s, name)
    IN IF r.raised = "none" THEN r
       ELSE IF ~IsNone(not_found_value) THEN Ok(not_found_value)
       ELSE Raise("KeyError")

\* BaseSequence.get(name, not_found_value): calls __getitem__, returns nothing
SeqGet(s, name, not_found_value) ==
    LET r == SeqGetItem(s, name, not_found_value)
    IN IF r.raised # "none" THEN r ELSE Ok(Raw(None))

\* BaseSequence.__delitem__(key): del self.__dict__[key]; self.params.remove(key)
SeqDelItem(s, key) ==
    IF ~Has(s, key) THEN [raised |-> "KeyError", seq |-> s]
    ELSE LET s1 == [s EXCEPT !.dict[key] = Absent]
         IN IF key \notin s1.params THEN [raised |-> "KeyError", seq |-> s1]
            ELSE [raised |-> "none", seq |-> [s1 EXCEPT !.params = @ \ {key}]]

\* BaseSequence.__len__
SeqLen(s) == Cardinality(s.params)

\* that_param.compliant(this_param) on two objects read from the two sequences
PairCompliant(that, this) ==
    IF ~IsParameter(that) \/ ~IsParameter(this) THEN Raise("AttributeError")
    ELSE ParamCompliant(that.obj, this.obj)

\* what compliant returns next to the flag: a set of names or a list of pairs
Names(S) == [t |-> "set", names |-> S, pairs |-> <<>>]
Pairs(l) == [t |-> "list", names |-> {}, pairs |-> l]

\* the loop of BaseSequence.compliant over the names left, in the order the set
\* is iterated; acc is non_compliant_params
RECURSIVE CompliantLoop(_, _, _, _)
CompliantLoop(s, other, order, acc) ==
    IF order = <<>> THEN Ok([flag |-> Len(acc) < 1, info |-> Pairs(acc)])
    ELSE LET pname == Head(order)
             this == DictLookup(s, pname)
             that == SeqGetItem(other, pname, Raw(None))
         IN IF this.raised # "none" THEN this
            ELSE IF that.raised # "none" THEN that
            ELSE LET c == PairCompliant(that.value, this.value)
                 IN IF c.raised # "none" THEN c
                    ELSE CompliantLoop(s, other, Tail(order),
                            IF c.value THEN acc
                            ELSE Append(acc, <<this.value, that.value>>))

SymmetricDifferenceOneSided(A, B) == A \ B
SymmetricDifference(A, B) == (A \ B) \cup (B \ A)

\* BaseSequence.compliant(other); other is [t, v]: t = "BaseSequence" for a
\* sequence v; order is the iteration order of self.params
SeqCompliant(s, other, order) ==
    IF other.t # "BaseSequence" THEN Raise("TypeError")
    ELSE IF s.params # other.v.params
         THEN Ok([flag |-> FALSE,
                  info |-> Names(SymmetricDifference(s.params, other.v.params))])
    ELSE CompliantLoop(s, other.v, order, <<>>)

\* a call that takes each compared Parameter out of the other sequence:
\* other.__dict__.pop(pname) in place of other[pname]
SeqCompliantCallPopping(s, other, order) ==
    [result |-> SeqCompliant(s, other, order),
     self |-> s,
     other |-> IF other.t = "BaseSequence" /\ s.params = other.v.params
               THEN [other EXCEPT !.v.dict =
                        [k \in Keys |-> IF k \in s.params THEN Absent ELSE @[k]]]
               ELSE other]

\* one call self.compliant(other): its outcome and the two objects after it.
\* The method and the methods it calls (__getitem__, Parameter.compliant,
\* _check_compliance, _cmp_value, _cmp_units) assign no attribute and change
\* no container of either object
SeqCompliantCall(s, other, order) ==
    [result |-> SeqCompliant(s, other, order), self |-> s, other |-> other]

\* BaseSequence.__eq__(other): the flag of compliant
SeqEq(s, other, order) ==
    LET c == SeqCompliantCall(s, other, order)
    IN [result |-> IF c.result.raised # "none"
                   THEN [raised |-> c.result.raised, value |-> FALSE]
                   ELSE [raised |-> "none", value |-> c.result.value.flag],
        self |-> c.self, other |-> c.other]

\* the orders in which a set can be iterated
Orders(S) ==
    {o \in [1..Cardinality(S) -> S] : \A i, j \in 1..Cardinality(S) : o[i] = o[j] => i = j}

-----------------------------------------------------------------------------
(* The sequence under test and the operations applied to it *)

NoDict == [k \in {} |-> Absent]
NoParams == [t |-> "NoneType", v |-> NoDict]
Dict(d) == [t |-> "dict", v |-> d]

\* the params argument of the constructor: absent, empty, raw values, Parameters
InitMaps ==
    {NoParams, Dict(NoDict),
     Dict([k \in {"EchoTime"} |-> Raw(Float(30 * Scale))]),
     Dict([k \in {"EchoTime", "FlipAngle"} |->
             IF k = "EchoTime" THEN Param(TE30) ELSE Param(FA90)])}

NewSeq(m) == SeqInit("Sequence", m, None)

OneItem(x) == [t |-> "item", v |-> <<x>>]
ItemList(l) == [t |-> "list", v |-> l]

\* the items the lists handed to add are made of
ListItems == {Param(TR2000), Param(TE30), Param(TEtext)} \cup NonParams

AddArgs ==
    {OneItem(x) : x \in Items} \cup {ItemList(l) : l \in ListsUpTo(ListItems, MaxAddLen)}
SetKeys == {Str("EchoTime"), PyInt(0)}
LookupKeys == ParamNames \cup {"name", "path", "subject_id", "params"}
Fallbacks == {Raw(None), Raw(PyInt(0))}
DelKeys == ParamNames \cup {"name"}

AsSeq(s) == [t |-> "BaseSequence", v |-> s]
NotASeq == [t |-> "str", v |-> NewSeq(NoParams)]

\* the sequences a sequence is compared with: constructed, then grown by one add
Others ==
    {AsSeq(SeqAdd(NewSeq(m), ItemList(l)).seq) :
        m \in InitMaps, l \in ListsUpTo(Pool, MaxOtherLen)}
    \cup {NotASeq}

(* BaseMRImagingProtocol: self._seq, a dict from sequence name to Sequence *)

SeqNames == {"Sequence", "T1w", "fMRI"}

NoSeq == [t |-> "absent", v |-> SeqInit("", NoParams, None)]

\* BaseMRImagingProtocol.__init__: self._seq = dict()
ProtocolInit == [k \in {} |-> NoSeq]

\* an assignment that starts the dict anew: self._seq = {name: seq}
RegisterAlone(p, name, s) == [k \in {name} |-> s]

\* self._seq[name] = seq
Register(p, name, s) ==
    [k \in DOMAIN p \cup {name} |-> IF k = name THEN s ELSE p[k]]

\* seq.name of a Sequence object
NameOf(s) == s.dict["name"].val.s

\* seq.name in self._seq
Registered(p, name) == name \in DOMAIN p

\* an add without the test for a registered name: the entry is replaced
ProtocolAddReplacing(p, arg) ==
    IF arg.t # "BaseSequence" THEN [raised |-> "TypeError", protocol |-> p]
    ELSE [raised |-> "none", protocol |-> Register(p, NameOf(arg.v), arg)]

\* BaseMRImagingProtocol.add(seq)
ProtocolAdd(p, arg) ==
    IF arg.t # "BaseSequence" THEN [raised |-> "TypeError", protocol |-> p]
    ELSE IF Registered(p, NameOf(arg.v))
         THEN [raised |-> "ValueError", protocol |-> p]
    ELSE [raised |-> "none", protocol |-> Register(p, NameOf(arg.v), arg)]

\* BaseMRImagingProtocol.__bool__
ProtocolBool(p) == ~(Cardinality(DOMAIN p) < 1)

\* BaseMRImagingProtocol.__getitem__(name)
ProtocolGetItem(p, name) ==
    IF Registered(p, name)
    THEN [raised |-> "none", value |-> p[name]]
    ELSE [raised |-> "KeyError", value |-> NoSeq]

\* the sequences a sequence is tested for equality with
EqOthers ==
    {AsSeq(SeqAdd(NewSeq(m), OneItem(x)).seq) : m \in InitMaps, x \in Pool}
    \cup {AsSeq(NewSeq(m)) : m \in InitMaps}
    \cup {NotASeq}

Init ==
    /\ \E m \in InitMaps : seq = NewSeq(m)
    /\ ret = [op |-> "init"]
    /\ protocol = ProtocolInit

Add ==
    \E arg \in AddArgs :
        LET r == SeqAdd(seq, arg)
        IN /\ seq' = r.seq
           /\ ret' = [op |-> "add", arg |-> arg, raised |-> r.raised,
                      stored |-> r.stored]
           /\ UNCHANGED protocol

SetItem ==
    \E key \in SetKeys, value \in Items :
        LET r == SeqSetItem(seq, key, value)
        IN /\ seq' = r.seq
           /\ ret' = [op |-> "setitem", raised |-> r.raised]
           /\ UNCHANGED protocol

GetItem ==
    \E name \in LookupKeys, fb \in Fallbacks :
        LET r == SeqGetItem(seq, name, fb)
        IN /\ ret' = [op |-> "getitem", key |-> name, fallback |-> fb,
                      raised |-> r.raised, value |-> r.value]
           /\ UNCHANGED <<seq, protocol>>

Get ==
    \E name \in LookupKeys, fb \in Fallbacks :
        LET r == SeqGet(seq, name, fb)
        IN /\ ret' = [op |-> "get", key |-> name, fallback |-> fb,
                      raised |-> r.raised, value |-> r.value]
           /\ UNCHANGED <<seq, protocol>>

DelItem ==
    \E key \in DelKeys :
        LET r == SeqDelItem(seq, key)
        IN /\ seq' = r.seq
           /\ ret' = [op |-> "delitem", key |-> key, raised |-> r.raised]
           /\ UNCHANGED protocol

Compliant ==
    \E other \in Others, order \in Orders(seq.params) :
        LET c == SeqCompliantCall(seq, other, order)
        IN /\ seq' = c.self
           /\ ret' = [op |-> "compliant", other |-> other, after |-> c.other,
                      raised |-> c.result.raised, value |-> c.result.value]
           /\ UNCHANGED protocol

Eq ==
    \E other \in EqOthers, order \in Orders(seq.params) :
        LET c == SeqEq(seq, other, order)
        IN /\ seq' = c.self
           /\ ret' = [op |-> "eq", other |-> other, after |-> c.other,
                      raised |-> c.result.raised, value |-> c.result.value]
           /\ UNCHANGED protocol

Next == Add \/ SetItem \/ GetItem \/ Get \/ DelItem \/ Compliant \/ Eq

Spec == Init /\ [][Next]_vars

-----------------------------------------------------------------------------
(* Parameters on their own: construction, then compliant() on two of them *)

NumericRaw ==
    {Unspecified, PyInt(2000), Float(20000004), Float(20004000),
     Float(20020000), Float(20200000), Str("2000")}
VariableRaw ==
    {Unspecified, Float(30 * Scale), List(<<30 * Scale, 10 * Scale>>),
     List(<<10 * Scale, 30 * Scale + 4>>),
     List(<<3 * Scale, 1 * Scale, 2 * Scale>>),
     List(<<1 * Scale, 2 * Scale, 3 * Scale>>),
     List(<<2 * Scale, 3 * Scale, 1 * Scale, 3 * Scale>>),
     List(<<3 * Scale, 3 * Scale, 2 * Scale, 1 * Scale>>),
     IntList(<<3, 1, 2>>),
     List(<<>>),
     List(<<50 * Scale, 10 * Scale, 30 * Scale + 4000>>)}
CategoricalRaw == {Unspecified, Str("siemens"), Str("SIEMENS"), Str("GE"), PyInt(3)}

\* the allowed_values a generic Categorical is given, and the values tried
AllowedValues == {{"ROW", "COL"}, {"row", "col"}}
AllowedRaw == {Unspecified, Str("ROW"), Str("row"), Str("GE"), PyInt(3)}

CtorArgs ==
    {[cls |-> "NumericParameter", name |-> "X", value |-> v, units |-> u,
      allowed |-> {}] : v \in NumericRaw, u \in {"ms", "s"}}
    \cup {Args(c, v) : c \in {"RepetitionTime", "FlipAngle"},
                       v \in {Unspecified, PyInt(90), Float(90 * Scale + 9)}}
    \cup {[cls |-> "VariableNumericParameter", name |-> "X", value |-> v,
           units |-> "ms", allowed |-> {}] : v \in VariableRaw}
    \cup {[cls |-> "VariableNumericParameter", name |-> "X",
           value |-> List(<<10 * Scale, 30 * Scale>>), units |-> "s",
           allowed |-> {}]}
    \cup {Args(c, v) : c \in CategoricalClasses, v \in CategoricalRaw}
    \cup {[cls |-> "CategoricalParameter", name |-> "X", value |-> Str("GE"),
           units |-> "ms", allowed |-> {}]}
    \cup {[cls |-> "CategoricalParameter", name |-> "X", value |-> v,
           units |-> "None", allowed |-> av] :
             v \in AllowedRaw, av \in AllowedValues}

\* the script "a = cls(...); b = cls(...); a.compliant(b)" with its inputs drawn
InitParam ==
    /\ seq = NewSeq(NoParams)
    /\ protocol = ProtocolInit
    /\ \E a, b \in CtorArgs : ret = [op |-> "args", a |-> a, b |-> b]

\* a = cls(...); b = cls(...): each constructor returns the object or raises
PConstruct ==
    /\ ret.op = "args"
    /\ ret' = [op |-> "construct", a |-> ret.a, b |-> ret.b,
               self |-> Construct(ret.a), other |-> Construct(ret.b)]
    /\ UNCHANGED <<seq, protocol>>

\* a.compliant(b), reached when neither constructor raised
PCompliant ==
    /\ ret.op = "construct"
    /\ ret.self.raised = "none" /\ ret.other.raised = "none"
    /\ ret' = [op |-> "pcompliant", a |-> ret.a, b |-> ret.b,
               self |-> ret.self.value, other |-> ret.other.value,
               result |-> ParamCompliant(ret.self.value, ret.other.value)]
    /\ UNCHANGED <<seq, protocol>>

NextParam == PConstruct \/ PCompliant

SpecParam == InitParam /\ [][NextParam]_vars

-----------------------------------------------------------------------------
(* The protocol under test and the operations applied to it *)

\* the sequences handed to add: two of each name, and something that is no
\* Sequence
SeqPool ==
    {AsSeq(SeqInit(n, m, None)) :
        n \in SeqNames,
        m \in {NoParams, Dict([k \in {"EchoTime"} |-> Param(TE30)])}}
    \cup {NotASeq}

ProtocolKeys == SeqNames \cup {"DWI"}

InitProtocol ==
    /\ seq = NewSeq(NoParams)
    /\ ret = [op |-> "init"]
    /\ protocol = ProtocolInit

PAdd ==
    \E arg \in SeqPool :
        LET r == ProtocolAdd(protocol, arg)
        IN /\ protocol' = r.protocol
           /\ ret' = [op |-> "padd", arg |-> arg, raised |-> r.raised]
           /\ UNCHANGED seq

PGetItem ==
    \E name \in ProtocolKeys :
        LET r == ProtocolGetItem(protocol, name)
        IN /\ ret' = [op |-> "pgetitem", key |-> name, raised |-> r.raised,
                      value |-> r.value]
           /\ UNCHANGED <<seq, protocol>>

PBool ==
    /\ ret' = [op |-> "pbool", value |-> ProtocolBool(protocol)]
    /\ UNCHANGED <<seq, protocol>>

NextProtocol == PAdd \/ PGetItem \/ PBool

SpecProtocol == InitProtocol /\ [][NextProtocol]_vars

-----------------------------------------------------------------------------
(* Claims about the Parameters, checked under SpecParam *)

\* 10 ** -decimals, the epsilon the documentation names
Epsilon(decimals) == PowNeg(10, decimals)

IsTrue(r) == r.raised = "none" /\ r.value

BothSpecified ==
    ~IsUnspecified(ret.a.value) /\ ~IsUnspecified(ret.b.value)

\* C1: two Numeric parameters with specified values and equal units are
\* compliant exactly when abs(a.value - b.value) < 10 ** -a.decimals.
C1_NumericWithinEpsilon ==
    (/\ ret.op = "pcompliant"
     /\ ret.self.cls = "NumericParameter" /\ ret.other.cls = "NumericParameter"
     /\ BothSpecified
     /\ ret.self.units = ret.other.units)
    => /\ ret.result.raised = "none"
       /\ ret.result.value =
            (Abs(ret.self.value.n - ret.other.value.n) < Epsilon(ret.self.decimals))

\* C2: when either operand was constructed with Unspecified, compliant()
\* returns False and does not raise, whatever the kinds of the two parameters.
C2_UnspecifiedNeverCompliant ==
    (ret.op = "pcompliant" /\ ~BothSpecified) =>
        (ret.result.raised = "none" /\ ret.result.value = FALSE)

\* the strings the constructors are given, with letter case folded away
FoldCase(s) ==
    CASE s \in {"siemens", "Siemens", "SIEMENS"} -> "siemens"
      [] s \in {"ge", "GE"} -> "ge"
      [] s \in {"row", "ROW"} -> "row"
      [] OTHER -> s

SameCategoricalClass ==
    /\ ret.op = "pcompliant"
    /\ ret.self.cls \in CategoricalClasses
    /\ ret.self.cls = ret.other.cls
    /\ BothSpecified
    /\ ret.self.units = ret.other.units

\* C13: two Categorical parameters of the same class with specified values and
\* equal units are compliant exactly when their constructor values are equal
\* ignoring letter case.
C13_CategoricalIgnoresCase ==
    SameCategoricalClass =>
        /\ ret.result.raised = "none"
        /\ ret.result.value = (FoldCase(ret.a.value.s) = FoldCase(ret.b.value.s))

\* values that differ in letter case only were found compliant
C13_Witness ==
    /\ SameCategoricalClass
    /\ ret.a.value = Str("siemens") /\ ret.b.value = Str("SIEMENS")
    /\ IsTrue(ret.result)

\* C14: two parameters whose units differ are never reported compliant, whatever
\* their kinds, classes and values.
C14_UnitsDifferNeverCompliant ==
    (ret.op = "pcompliant" /\ ret.self.units # ret.other.units)
        => ~IsTrue(ret.result)

\* C15: compliant() on two constructed Parameters returns a boolean and never
\* raises, whatever their kinds and classes.
C15_CompliantNeverRaises ==
    ret.op = "pcompliant" => ret.result.raised = "none"

IsAscending(l) == \A i \in 1..(Len(l) - 1) : l[i] <= l[i + 1]

Count(l, v) == Cardinality({i \in 1..Len(l) : l[i] = v})

\* the lists l and m hold the same numbers, each as often
IsPermutation(l, m) ==
    /\ Len(l) = Len(m)
    /\ \A i \in 1..Len(l) : Count(l, l[i]) = Count(m, l[i])

FromList(a) == a.cls = "VariableNumericParameter" /\ IsList(a.value)

\* C16: a VariableNumeric constructed from a list of numbers stores the same
\* numbers in ascending order; an ascending list is stored as given, and two
\* lists that are permutations of each other are stored alike.
C16_StoredSorted ==
    (ret.op = "construct" /\ FromList(ret.a)) =>
        /\ ret.self.raised = "none"
        /\ ret.self.value.value.t = "list"
        /\ IsAscending(ret.self.value.value.l)
        /\ IsPermutation(ret.self.value.value.l, ElemFloats(ret.a.value))
        /\ IsAscending(ret.a.value.l)
                => ret.self.value.value.l = ElemFloats(ret.a.value)
        /\ (FromList(ret.b)
              /\ IsPermutation(ElemFloats(ret.a.value), ElemFloats(ret.b.value)))
                => ret.other.value.value = ret.self.value.value

\* two different orders of the same numbers, neither ascending, stored alike
C16_Witness ==
    /\ ret.op = "construct"
    /\ ret.a.cls = "VariableNumericParameter"
    /\ ret.b.cls = "VariableNumericParameter"
    /\ ret.a.value = List(<<2 * Scale, 3 * Scale, 1 * Scale, 3 * Scale>>)
    /\ ret.b.value = List(<<3 * Scale, 3 * Scale, 2 * Scale, 1 * Scale>>)
    /\ ret.self.value.value = List(<<1 * Scale, 2 * Scale, 3 * Scale, 3 * Scale>>)
    /\ ret.other.value.value = ret.self.value.value

Min(a, b) == IF a <= b THEN a ELSE b

DifferentLengths ==
    /\ ret.op = "pcompliant"
    /\ ret.self.cls = "VariableNumericParameter"
    /\ ret.other.cls = "VariableNumericParameter"
    /\ BothSpecified
    /\ ret.self.units = ret.other.units
    /\ Len(ret.self.value.l) # Len(ret.other.value.l)

\* C18: two VariableNumeric parameters with specified values, equal units and
\* stored lists of different lengths compare without an error, and are
\* compliant exactly when the elements of the shorter list and the elements at
\* the same places of the longer one are within the tolerance 10 ** -decimals.
C18_ShorterLengthCompared ==
    DifferentLengths =>
        LET a == ret.self.value.l
            b == ret.other.value.l
        IN /\ ret.result.raised = "none"
           /\ ret.result.value =
                (\A i \in 1..Min(Len(a), Len(b)) :
                    Abs(a[i] - b[i]) < Epsilon(ret.self.decimals))

IsUpper(s) == Upper(s) = s

WithAllowedValues ==
    /\ ret.op = "construct"
    /\ ret.a.cls \in CategoricalClasses
    /\ ret.a.allowed # {}

\* C19: constructing a Categorical with a non-empty allowed_values from a
\* string or from Unspecified either raises ValueError or stores an upper-cased
\* string that is a member of allowed_values, and constructing it from any
\* value outside allowed_values raises.
C19_StoredValueAllowed ==
    WithAllowedValues =>
        /\ ret.a.value.t \in {"str", "UnspecifiedType"} =>
             \/ ret.self.raised = "ValueError"
             \/ /\ ret.self.raised = "none"
                /\ ret.self.value.value.t = "str"
                /\ IsUpper(ret.self.value.value.s)
                /\ ret.self.value.value.s \in ret.a.allowed
        /\ ~(ret.a.value.t = "str" /\ ret.a.value.s \in ret.a.allowed)
                => ret.self.raised # "none"

-----------------------------------------------------------------------------
(* Claims about the Sequence, checked under Spec *)

IsCompliantCall == ret.op = "compliant" /\ ret.other.t = "BaseSequence"

\* the names under which the pair (other's, this one's) does not compare compliant
Mismatched ==
    {n \in seq.params \cap ret.other.v.params :
        ~IsTrue(PairCompliant(ret.other.v.dict[n], seq.dict[n]))}

\* C3: when the two name sets differ, Sequence.compliant returns
\* (False, the set of names found in exactly one of the two), whatever the values
\* stored under the shared names are.
C3_ShapeMismatch ==
    (IsCompliantCall /\ seq.params # ret.other.v.params) =>
        /\ ret.raised = "none"
        /\ ret.value.flag = FALSE
        /\ ret.value.info =
             Names({n \in ParamNames : (n \in seq.params) # (n \in ret.other.v.params)})

\* a shape mismatch was reported although a shared name holds a pair that does
\* not compare compliant
C3_Witness ==
    /\ IsCompliantCall
    /\ seq.params # ret.other.v.params
    /\ Mismatched # {}
    /\ ret.raised = "none"
    /\ ret.value.info.t = "set"
    /\ Cardinality(ret.value.info.names) = 2

OnlyParameters(s) == \A n \in s.params : IsParameter(s.dict[n])

\* C4: with identical name sets holding Parameters, the call returns (True, [])
\* when no pair is mismatched, and otherwise (False, L) with L holding one
\* (this_param, other_param) tuple per mismatched name and nothing else.
C4_ValueCheck ==
    (/\ IsCompliantCall
     /\ seq.params = ret.other.v.params
     /\ OnlyParameters(seq) /\ OnlyParameters(ret.other.v)) =>
        /\ ret.raised = "none"
        /\ ret.value.flag = (Mismatched = {})
        /\ ret.value.info.t = "list"
        /\ Len(ret.value.info.pairs) = Cardinality(Mismatched)
        /\ {ret.value.info.pairs[i] : i \in 1..Len(ret.value.info.pairs)} =
             {<<seq.dict[n], ret.other.v.dict[n]>> : n \in Mismatched}

\* the sequences of the end-to-end scenario
S1 == SeqAdd(NewSeq(NoParams),
             ItemList(<<Param(TR2000), Param(TE30), Param(FA90)>>)).seq
S2 == SeqAdd(NewSeq(NoParams),
             ItemList(<<Param(TR2000p4), Param(TE30), Param(FA90)>>)).seq

\* C5: S1.compliant(S2) returns (False, [(RepetitionTime of S1, RepetitionTime
\* of S2)]): the difference of 0.4 is reported as the single mismatch.
C5_Scenario ==
    (ret.op = "compliant" /\ seq = S1 /\ ret.other = AsSeq(S2)) =>
        /\ ret.raised = "none"
        /\ ret.value.flag = FALSE
        /\ ret.value.info = Pairs(<< <<Param(TR2000), Param(TR2000p4)>> >>)

\* C6: an add call that raises leaves params and the stored Parameters as they
\* were before the call.
C6_AddAllOrNothing ==
    [][(ret'.op = "add" /\ ret'.raised # "none") => seq' = seq]_vars

\* C7: every name in params maps to a stored Parameter, and no Parameter is
\* stored under a name absent from params.
C7_ParamsMatchStored ==
    /\ \A n \in seq.params : IsParameter(seq.dict[n])
    /\ \A k \in Keys : IsParameter(seq.dict[k]) => k \in seq.params

\* C8: seq[name] without a fallback raises KeyError for every name that is not
\* in params.
C8_LookupOfUnsetNameFails ==
    (ret.op = "getitem" /\ IsNone(ret.fallback) /\ ret.key \notin seq.params)
        => ret.raised = "KeyError"

\* C9: seq.get(name, fallback) returns the fallback for a name that has not been
\* set, and the stored Parameter for a name that has been set.
C9_GetReturnsFallbackOrStored ==
    (ret.op = "get" /\ ~IsNone(ret.fallback)) =>
        IF ret.key \in seq.params /\ IsParameter(seq.dict[ret.key])
        THEN ret.raised = "none" /\ ret.value = seq.dict[ret.key]
        ELSE (ret.key \in ParamNames /\ ~Has(seq, ret.key))
                => (ret.raised = "none" /\ ret.value = ret.fallback)

\* C10: del seq[name] for a name in params removes the stored Parameter and the
\* name and nothing else, so that lookup then fails and len is one less; for a
\* name not in params it raises and changes nothing.
C10_DeleteFrame ==
    [][ret'.op = "delitem" =>
        LET key == ret'.key
        IN IF key \in seq.params
           THEN /\ ret'.raised = "none"
                /\ seq'.params = seq.params \ {key}
                /\ seq'.dict = [seq.dict EXCEPT ![key] = Absent]
                /\ SeqGetItem(seq', key, Raw(None)).raised = "KeyError"
                /\ SeqLen(seq') = SeqLen(seq) - 1
           ELSE ret'.raised # "none" /\ seq' = seq]_vars

\* the items of an add call's argument, as the method iterates them
ItemsOf(arg) == IF arg.t = "list" THEN arg.v ELSE <<arg.v[1]>>

\* the last item of the list l that is a Parameter named n
LastNamed(l, n) ==
    l[CHOOSE i \in 1..Len(l) :
        /\ l[i].obj.name = n
        /\ \A j \in (i + 1)..Len(l) : l[j].obj.name # n]

\* C11: after a successful add, every added Parameter's name is in params,
\* lookup of the name returns the Parameter added last under it whatever was
\* stored there before, and len counts the distinct names: those counted before
\* and those added.
C11_AddThenLookup ==
    [][(ret'.op = "add" /\ ret'.raised = "none") =>
        LET l == ItemsOf(ret'.arg)
            added == {l[i].obj.name : i \in 1..Len(l)}
        IN /\ \A n \in added :
                /\ n \in seq'.params
                /\ SeqGetItem(seq', n, Raw(None)) = Ok(LastNamed(l, n))
           /\ SeqLen(seq') = Cardinality(seq.params \cup added)]_vars

\* one add call stored two Parameters of the same name, the second was kept,
\* and another name was already there
C11_Witness ==
    /\ ret.op = "add" /\ ret.raised = "none"
    /\ ret.arg = ItemList(<<Param(TE30), Param(TEtext)>>)
    /\ seq.dict["EchoTime"] = Param(TEtext)
    /\ "FlipAngle" \in seq.params
    /\ SeqLen(seq) = 2

\* C12: an add call whose argument holds an item that is not a Parameter
\* raises TypeError and no other class of error.
C12_AddNonParameterTypeError ==
    (/\ ret.op = "add"
     /\ \E i \in 1..Len(ItemsOf(ret.arg)) : ~IsParameter(ItemsOf(ret.arg)[i]))
    => ret.raised = "TypeError"

\* C20: a call of Sequence.compliant, or of == which is built on it, leaves the
\* receiver and the argument as they were (params, the stored Parameters and
\* their values, units and decimals), whatever it returns or raises.
C20_CompliantReadOnly ==
    [][ret'.op \in {"compliant", "eq"} =>
        (seq' = seq /\ ret'.after = ret'.other)]_vars

\* a comparison of two sequences of the same two names that raised from within
\* the loop over the names
C20_Witness ==
    /\ ret.op = "eq"
    /\ ret.other.t = "BaseSequence"
    /\ ret.raised = "TypeError"
    /\ Cardinality(seq.params) = 2
    /\ seq.params = ret.other.v.params
    /\ ret.after = ret.other

-----------------------------------------------------------------------------
(* Claims about the Protocol, checked under SpecProtocol *)

\* every registered Sequence sits under its own name, so no two registered
\* Sequences share a name
NamesUnique(p) ==
    \A k \in DOMAIN p : NameOf(p[k].v) = k

\* C17: add registers a Sequence under its own name and the registered names
\* stay unique; an add of a Sequence whose name is registered raises ValueError
\* and leaves the Protocol as it was, lookup still returning the Sequence
\* registered first.
C17_ProtocolAdd ==
    [][(ret'.op = "padd" /\ ret'.arg.t = "BaseSequence") =>
        LET name == NameOf(ret'.arg.v)
        IN /\ NamesUnique(protocol')
           /\ IF Registered(protocol, name)
              THEN /\ ret'.raised = "ValueError"
                   /\ protocol' = protocol
                   /\ ProtocolGetItem(protocol', name) =
                        [raised |-> "none", value |-> protocol[name]]
              ELSE /\ ret'.raised = "none"
                   /\ DOMAIN protocol' = DOMAIN protocol \cup {name}
                   /\ \A k \in DOMAIN protocol : protocol'[k] = protocol[k]
                   /\ ProtocolGetItem(protocol', name) =
                        [raised |-> "none", value |-> ret'.arg]]_vars

\* an add of a second, different Sequence named "T1w" was refused and the first
\* is still registered, next to another Sequence
C17_Witness ==
    /\ ret.op = "padd" /\ ret.raised = "ValueError"
    /\ NameOf(ret.arg.v) = "T1w"
    /\ Registered(protocol, "T1w")
    /\ protocol["T1w"] # ret.arg
    /\ Registered(protocol, "fMRI")

\* C21: the registry only grows: no operation of the Protocol removes or
\* replaces an entry, every lookup of a registered name returns the Sequence
\* registered under it, and a Protocol that is truthy stays truthy.
C21_RegistryOnlyGrows ==
    [][/\ \A k \in DOMAIN protocol :
            k \in DOMAIN protocol' /\ protocol'[k] = protocol[k]
       /\ ProtocolBool(protocol) => ProtocolBool(protocol')
       /\ (ret'.op = "pgetitem" /\ Registered(protocol, ret'.key)) =>
            (ret'.raised = "none" /\ ret'.value = protocol[ret'.key])
       /\ ret'.op = "pbool" => ret'.value = (DOMAIN protocol # {})]_vars

\* with three Sequences registered, the one registered as "T1w" is looked up
\* and returned, and the Protocol is truthy
C21_Witness ==
    /\ ret.op = "pgetitem" /\ ret.key = "T1w" /\ ret.raised = "none"
    /\ Cardinality(DOMAIN protocol) = 3
    /\ ret.value = protocol["T1w"]
    /\ ProtocolBool(protocol)

====
